---- MODULE Spec2Model ----
(***************************************************************************)
(* Privacy Point: the document workflow (src/workflows/workflow.py), the   *)
(* document state (src/workflows/state.py) and the stage agents            *)
(* (src/agents/*.py).                                                      *)
(*                                                                         *)
(* One document is followed.  `state` is the DocumentState dictionary.     *)
(* Scores are integers in hundredths (0.85 is 85).  A dictionary key that  *)
(* the code may find missing is modelled explicitly: current_status has    *)
(* the value "absent", error_messages has the flag has_error_messages.     *)
(* revision_attempts and can_be_delivered are only ever read through       *)
(* state.get(key, default), so a missing key is the default value.         *)
(***************************************************************************)
EXTENDS Integers, Sequences, FiniteSets, TLC

VARIABLES state, pc, node, filtered, invoked, raised, req, other, assessment

vars == <<state, pc, node, filtered, invoked, raised, req, other, assessment>>

\* the request being made of create_initial_state, a second run held by the
\* host while this one executes, and the value returned by an assessment
\* method called on its own; one document followed through its stages has
\* none of them
aux == <<req, other, assessment>>

(* ---------------------------- bounds ----------------------------------- *)

\* revision_attempts is not bounded by the code; operations that increment
\* it are disabled once it reaches this value
MaxAttempts == 4

\* processing_log is not bounded by the code; operations that append to it
\* are disabled once it has this many entries
MaxLog == 2

\* the values an assessment can give a score (hundredths)
Scores == {75, 80, 85}

(* ------------------------ program constants ---------------------------- *)

\* Config.MAX_REVISION_ATTEMPTS, default of the environment variable
MAX_REVISION_ATTEMPTS == 3

\* literal bound on revision_attempts in _process_human_review
SIMULATED_REVISION_LIMIT == 2

\* literal approval threshold of _process_human_review (0.85)
APPROVAL_THRESHOLD == 85

\* literal revision threshold of _process_human_review (0.8)
REVISION_THRESHOLD == 80

\* literal acceptance threshold of _assess_document_quality (0.8)
QUALITY_ACCEPTABLE == 80

\* langgraph END
END == "__end__"

(* ------------------------- workflow graph ------------------------------ *)

\* DocumentWorkflow._build_graph: the nodes, in the order they are added
Registry ==
  << "ocr", "classifier", "data_mapping", "research", "legal_expert",
     "cyber_security", "structure", "generator", "quality", "compliance",
     "human_supervision" >>

Nodes == { Registry[i] : i \in 1..Len(Registry) }

\* workflow.set_entry_point("ocr")
EntryPoint == "ocr"

\* EdgeMap with the error label of ocr leading back into the graph
EdgeMapLoop(n) ==
  IF n = "ocr"
    THEN [l \in {"classifier", "error"} |-> IF l = "error" THEN "ocr" ELSE "classifier"]
    ELSE [l \in {"end", "error"} |-> END]

\* the path map given to add_conditional_edges for each node
EdgeMap(n) ==
  CASE n = "ocr"               -> [l \in {"classifier", "error"} |-> IF l = "error" THEN END ELSE "classifier"]
    [] n = "classifier"        -> [l \in {"data_mapping", "error"} |-> IF l = "error" THEN END ELSE "data_mapping"]
    [] n = "data_mapping"      -> [l \in {"research", "error"} |-> IF l = "error" THEN END ELSE "research"]
    [] n = "research"          -> [l \in {"legal_expert", "error"} |-> IF l = "error" THEN END ELSE "legal_expert"]
    [] n = "legal_expert"      -> [l \in {"cyber_security", "error"} |-> IF l = "error" THEN END ELSE "cyber_security"]
    [] n = "cyber_security"    -> [l \in {"structure", "error"} |-> IF l = "error" THEN END ELSE "structure"]
    [] n = "structure"         -> [l \in {"generator", "error"} |-> IF l = "error" THEN END ELSE "generator"]
    [] n = "generator"         -> [l \in {"quality", "error"} |-> IF l = "error" THEN END ELSE "quality"]
    [] n = "quality"           -> [l \in {"compliance", "error"} |-> IF l = "error" THEN END ELSE "compliance"]
    [] n = "compliance"        -> [l \in {"human_supervision", "error"} |-> IF l = "error" THEN END ELSE "human_supervision"]
    [] n = "human_supervision" -> [l \in {"end", "error"} |-> END]

\* the agents that define the method process() which the wrappers call;
\* the other eight agents define execute() only, and BaseAgent defines neither
HasProcess(n) == n \in {"data_mapping", "legal_expert", "cyber_security"}

(* -------------------------- document state ----------------------------- *)

\* ProcessingStatus
ProcessingStatus ==
  { "pending", "processing", "ocr_complete", "classified", "researched",
    "structured", "generated", "quality_checked", "compliance_validated",
    "human_review", "approved", "rejected", "error" }

\* the two forms document_type takes: the string create_initial_state is
\* given, or a member of the DocumentType enumeration (the declared type,
\* and what ClassifierAgent.execute stores); only the latter has .value
DocumentTypeForms == {"str", "enum"}

\* is there an uploaded file (the request may carry none: uploaded_file = None)
UploadedFiles == BOOLEAN

\* DocumentWorkflow.create_initial_state: the keys it sets; current_status,
\* error_messages, revision_attempts and can_be_delivered are not among them
create_initial_state(document_type, uploaded_file) ==
  [ document_type      |-> document_type,
    uploaded_file      |-> uploaded_file,
    status             |-> "pending",
    error              |-> "none",
    current_status     |-> "absent",
    has_error_messages |-> FALSE,
    error_messages     |-> << >>,
    processing_log     |-> << >>,
    revision_attempts  |-> 0,
    data_mapping       |-> "empty",
    legal_expert       |-> "empty",
    cyber_security     |-> "empty",
    human_supervision  |-> TRUE,
    document_structure |-> FALSE,
    quality_score      |-> 0,
    compliance_score   |-> 0,
    is_complete        |-> FALSE,
    is_approved        |-> FALSE,
    can_be_delivered   |-> FALSE ]

\* a state that also carries the keys DocumentState declares and
\* create_initial_state leaves out, at their initial values
DocumentState(s) ==
  [s EXCEPT !.current_status = "pending", !.has_error_messages = TRUE]

\* log_action starting the log afresh
log_actionAfresh(s, agent) ==
  [s EXCEPT !.processing_log = << agent >>]

\* BaseAgent.log_action: append "<agent class>: <message>"
log_action(s, agent) ==
  [s EXCEPT !.processing_log = Append(@, agent)]

\* the except-block every execute() ends with: log_action, then
\* state["error_messages"].append(...), then current_status = ERROR.  The
\* append raises KeyError when the key is missing, and that exception leaves
\* execute().  The result is [st: the state, raised: did execute raise]
ExceptBlock(s, agent) ==
  LET logged == log_action(s, agent) IN
  IF logged.has_error_messages
    THEN [st |-> [logged EXCEPT !.error_messages = Append(@, agent),
                                !.current_status = "error"],
          raised |-> FALSE]
    ELSE [st |-> logged, raised |-> TRUE]

\* a normal return of execute()
Returned(s) == [st |-> s, raised |-> FALSE]

\* the first statement of every execute(): current_status = PROCESSING
Processing(s) == [s EXCEPT !.current_status = "processing"]

(* ------------------------------ agents --------------------------------- *)

\* state["document_type"].value raises AttributeError on a plain string
ValueRaises(s) == s.document_type = "str"

\* OCRAgent.execute; throws: the digitization of the uploaded file raised
OCRAgent_execute(s, throws) ==
  LET p == Processing(s) IN
  IF ~p.uploaded_file
    THEN Returned(log_action(p, "OCRAgent"))
    ELSE IF throws
      THEN ExceptBlock(p, "OCRAgent")
      ELSE Returned(log_action([p EXCEPT !.current_status = "ocr_complete"],
                               "OCRAgent"))

\* ClassifierAgent.execute; throws: the language-model call, the parse of
\* its answer or DocumentType(...) raised
ClassifierAgent_execute(s, throws) ==
  LET p == Processing(s) IN
  IF throws
    THEN ExceptBlock(p, "ClassifierAgent")
    ELSE Returned(log_action([p EXCEPT !.document_type = "enum",
                                       !.current_status = "classified"],
                             "ClassifierAgent"))

\* ResearchAgent.execute; the prompt arguments read document_type.value
ResearchAgent_execute(s, throws) ==
  LET p == Processing(s) IN
  IF ValueRaises(p) \/ throws
    THEN ExceptBlock(p, "ResearchAgent")
    ELSE Returned(log_action([p EXCEPT !.current_status = "researched"],
                             "ResearchAgent"))

\* StructureAgent.execute; _create_document_structure reads
\* document_type.value and makes no external call
StructureAgent_execute(s) ==
  LET p == Processing(s) IN
  IF ValueRaises(p)
    THEN ExceptBlock(p, "StructureAgent")
    ELSE Returned(log_action([p EXCEPT !.document_structure = TRUE,
                                       !.current_status = "structured"],
                             "StructureAgent"))

\* GeneratorAgent.execute; the language model is called once per section
\* of document_structure, so it can only raise when there is a structure
GeneratorAgent_execute(s, throws) ==
  LET p == Processing(s) IN
  IF p.document_structure /\ throws
    THEN ExceptBlock(p, "GeneratorAgent")
    ELSE Returned(log_action([p EXCEPT !.current_status = "generated"],
                             "GeneratorAgent"))

\* QualityAgent._assess_document_quality, last step: is_acceptable
is_acceptable(overall_score, critical) ==
  overall_score >= QUALITY_ACCEPTABLE /\ ~critical

\* QualityAgent.execute; overall_score and critical (is there an issue of
\* severity critical) are what the assessment of generated_content gives
QualityAgent_execute(s, overall_score, critical) ==
  LET p == Processing(s) IN
  IF ValueRaises(p)
    THEN ExceptBlock(p, "QualityAgent")
    ELSE LET q == [p EXCEPT !.quality_score = overall_score] IN
         IF ~is_acceptable(overall_score, critical)
           THEN Returned(log_action(
                  [q EXCEPT !.revision_attempts = @ + 1,
                            !.current_status = "quality_checked"],
                  "QualityAgent"))
           ELSE Returned(log_action(
                  [q EXCEPT !.current_status = "quality_checked"],
                  "QualityAgent"))

\* ComplianceAgent.execute; overall_score is what _validate_compliance gives
ComplianceAgent_execute(s, overall_score) ==
  LET p == Processing(s) IN
  IF ValueRaises(p)
    THEN ExceptBlock(p, "ComplianceAgent")
    ELSE Returned(log_action(
           [p EXCEPT !.compliance_score = overall_score,
                     !.current_status = "compliance_validated"],
           "ComplianceAgent"))

\* HumanSupervisionAgent._process_human_review: the simulated decision
_process_human_review(quality_score, compliance_score, revision_attempts) ==
  IF quality_score >= APPROVAL_THRESHOLD /\ compliance_score >= APPROVAL_THRESHOLD
    THEN "approved"
  ELSE IF revision_attempts < SIMULATED_REVISION_LIMIT
          /\ (quality_score < REVISION_THRESHOLD
              \/ compliance_score < REVISION_THRESHOLD)
    THEN "needs_revision"
  ELSE "rejected"

\* ApplyDecision without the reset of is_approved on a rejection
ApplyDecisionKeepsApproval(s, decision) ==
  IF decision = "approved"
    THEN [s EXCEPT !.current_status = "approved",
                   !.is_approved = TRUE,
                   !.can_be_delivered = TRUE]
  ELSE IF decision = "needs_revision"
    THEN [s EXCEPT !.current_status = "human_review",
                   !.revision_attempts = @ + 1]
  ELSE [s EXCEPT !.current_status = "rejected"]

\* the branch on the decision shared by HumanSupervisionAgent.execute
\* (lines 52-65) and process_review_decision (lines 322-331)
ApplyDecision(s, decision) ==
  IF decision = "approved"
    THEN [s EXCEPT !.current_status = "approved",
                   !.is_approved = TRUE,
                   !.can_be_delivered = TRUE]
  ELSE IF decision = "needs_revision"
    THEN [s EXCEPT !.current_status = "human_review",
                   !.revision_attempts = @ + 1]
  ELSE [s EXCEPT !.current_status = "rejected",
                 !.is_approved = FALSE]

\* HumanSupervisionAgent.execute; _prepare_review_package reads
\* document_type.value
HumanSupervisionAgent_execute(s) ==
  LET p == Processing(s) IN
  IF ValueRaises(p)
    THEN ExceptBlock(p, "HumanSupervisionAgent")
    ELSE LET decision == _process_human_review(p.quality_score,
                           p.compliance_score, p.revision_attempts)
         IN Returned(log_action(ApplyDecision(p, decision),
                                "HumanSupervisionAgent"))

\* HumanSupervisionAgent.process_review_decision; decision is any string
process_review_decision(s, decision) == ApplyDecision(s, decision)

\* the decisions a reviewer submits: the three the interface names and one
\* that is none of them
Decisions == {"approved", "needs_revision", "rejected", "other"}

Agent_processReportsError(s, n, throws) ==
  LET r == IF throws THEN "error" ELSE "completed"
      t == IF throws THEN [s EXCEPT !.current_status = "error"] ELSE s
  IN CASE n = "data_mapping"   -> [t EXCEPT !.data_mapping = r]
       [] n = "legal_expert"   -> [t EXCEPT !.legal_expert = r]
       [] n = "cyber_security" -> [t EXCEPT !.cyber_security = r]

\* DataMappingAgent.process, LegalExpertAgent.process and
\* CyberSecurityAgent.process: the result, or on an internal error a record
\* with status "error", goes to the agent's own key; nothing is raised
Agent_process(s, n, throws) ==
  LET r == IF throws THEN "error" ELSE "completed" IN
  CASE n = "data_mapping"   -> [s EXCEPT !.data_mapping = r]
    [] n = "legal_expert"   -> [s EXCEPT !.legal_expert = r]
    [] n = "cyber_security" -> [s EXCEPT !.cyber_security = r]

(* ----------------------------- workflow -------------------------------- *)

\* DocumentWorkflow._run_ocr ... _run_human_supervision: call
\* self.agents[n].process(state); any exception, the AttributeError of an
\* agent without process() included, is caught and written to the keys
\* status and error
_run_node(s, n, throws) ==
  IF HasProcess(n)
    THEN Agent_process(s, n, throws)
    ELSE [s EXCEPT !.status = "error", !.error = "no_process"]

\* what a graph built by StateGraph(DocumentState) keeps of a node's
\* result when it keeps only the keys DocumentState declares: status,
\* error, data_mapping, legal_expert and cyber_security are not declared
ChannelWrite(s, out) ==
  [out EXCEPT !.status = s.status, !.error = s.error,
              !.data_mapping = s.data_mapping,
              !.legal_expert = s.legal_expert,
              !.cyber_security = s.cyber_security]

\* what such a graph hands to the routing function: the declared keys
\* only, so neither status nor human_supervision is in it
ChannelView(s) ==
  [s EXCEPT !.status = "absent", !.human_supervision = FALSE]

\* DocumentWorkflow._should_continue
_should_continue(s) ==
  IF s.status = "error" THEN "error"
  ELSE IF s.human_supervision THEN "end"
  ELSE "continue"

(* ------------------------------ behaviour ------------------------------ *)

\* the states a document starts in: what create_initial_state returns, and
\* the same completed to the declared DocumentState
InitialStates ==
  UNION { { create_initial_state(k, f), DocumentState(create_initial_state(k, f)) } :
          k \in DocumentTypeForms, f \in UploadedFiles }

Init ==
  /\ state \in InitialStates
  /\ pc = "idle"
  /\ node = "none"
  /\ filtered = FALSE
  /\ invoked = << >>
  /\ raised = FALSE
  /\ req = "none"
  /\ other = "none"
  /\ assessment = "none"

\* a direct call of a stage on the document: res is what the call gives
Call(res) ==
  /\ pc = "idle"
  /\ res.st.revision_attempts <= MaxAttempts
  /\ Len(res.st.processing_log) <= MaxLog
  /\ state' = res.st
  /\ raised' = res.raised
  /\ UNCHANGED <<pc, node, filtered, invoked, aux>>

OCRExecute == \E throws \in BOOLEAN : Call(OCRAgent_execute(state, throws))

ClassifierExecute ==
  \E throws \in BOOLEAN : Call(ClassifierAgent_execute(state, throws))

ResearchExecute ==
  \E throws \in BOOLEAN : Call(ResearchAgent_execute(state, throws))

StructureExecute == Call(StructureAgent_execute(state))

GeneratorExecute ==
  \E throws \in BOOLEAN : Call(GeneratorAgent_execute(state, throws))

QualityExecute ==
  \E overall_score \in Scores, critical \in BOOLEAN :
     Call(QualityAgent_execute(state, overall_score, critical))

ComplianceExecute ==
  \E overall_score \in Scores : Call(ComplianceAgent_execute(state, overall_score))

HumanSupervisionExecute == Call(HumanSupervisionAgent_execute(state))

\* direct calls of the three stages whose method is process()
DataMappingProcess ==
  \E throws \in BOOLEAN :
     Call(Returned(Agent_process(state, "data_mapping", throws)))

LegalExpertProcess ==
  \E throws \in BOOLEAN :
     Call(Returned(Agent_process(state, "legal_expert", throws)))

CyberSecurityProcess ==
  \E throws \in BOOLEAN :
     Call(Returned(Agent_process(state, "cyber_security", throws)))

\* a reviewer's decision is submitted
ProcessReviewDecision ==
  \E decision \in Decisions :
     Call(Returned(process_review_decision(state, decision)))

\* DocumentWorkflow.run: self.graph.invoke(initial_state) starts at the
\* entry point; whether the installed graph library keeps undeclared keys
\* is fixed for the run
RunInvoke ==
  /\ pc = "idle"
  /\ state \in InitialStates
  /\ pc' = "node"
  /\ node' = EntryPoint
  /\ filtered' \in BOOLEAN
  /\ invoked' = << >>
  /\ raised' = FALSE
  /\ UNCHANGED <<state, aux>>

\* the graph runs the wrapper of the current node
RunNode ==
  /\ pc = "node"
  /\ \E throws \in BOOLEAN :
       LET out == _run_node(state, node, throws) IN
       state' = IF filtered THEN ChannelWrite(state, out) ELSE out
  /\ invoked' = Append(invoked, node)
  /\ pc' = "route"
  /\ UNCHANGED <<node, filtered, raised, aux>>

\* the conditional edge: the label of _should_continue is looked up in the
\* node's path map; a label that is not a key raises out of graph.invoke
RunRoute ==
  /\ pc = "route"
  /\ LET label == _should_continue(IF filtered THEN ChannelView(state) ELSE state) IN
     IF label \in DOMAIN EdgeMap(node)
       THEN IF EdgeMap(node)[label] = END
              THEN pc' = "returned" /\ node' = node
              ELSE pc' = "node" /\ node' = EdgeMap(node)[label]
       ELSE pc' = "except" /\ node' = node
  /\ UNCHANGED <<state, filtered, invoked, raised, aux>>

\* the except-block of run: status = ERROR, error = str(e), return
RunExcept ==
  /\ pc = "except"
  /\ state' = [state EXCEPT !.status = "error", !.error = "unmapped_label"]
  /\ pc' = "returned"
  /\ UNCHANGED <<node, filtered, invoked, raised, aux>>

Next ==
  \/ OCRExecute
  \/ ClassifierExecute
  \/ ResearchExecute
  \/ StructureExecute
  \/ GeneratorExecute
  \/ QualityExecute
  \/ ComplianceExecute
  \/ HumanSupervisionExecute
  \/ ProcessReviewDecision
  \/ RunInvoke
  \/ RunNode
  \/ RunRoute
  \/ RunExcept

Spec == Init /\ [][Next]_vars

\* run() is one synchronous call: once started, its steps are taken.  The
\* direct calls are the caller's and nothing obliges the caller to make them
RunStep == RunNode \/ RunRoute \/ RunExcept

FairSpec == Spec /\ WF_vars(RunStep)

\* the document types of DocumentType, which are also the valid_types of
\* generate_document
ValidTypes ==
  { "politica_privacidade", "termo_consentimento", "clausula_contratual",
    "ata_comite", "codigo_conduta", "acordo_tratamento_dados",
    "notificacao_violacao", "avaliacao_impacto" }

\* the requests made: any string as document_type, company_name and
\* activity_description, the empty string included, with or without a file
Requests ==
  [ document_type        : ValidTypes \cup {"tipo_desconhecido"},
    company_name         : {"", "Acme"},
    activity_description : {"", "Loja online"},
    uploaded_file        : BOOLEAN,
    outcome              : {"pending"} ]

RequestInit ==
  /\ req \in Requests
  /\ state = "none"
  /\ pc = "idle"
  /\ node = "none"
  /\ filtered = FALSE
  /\ invoked = << >>
  /\ raised = FALSE
  /\ other = "none"
  /\ assessment = "none"

\* DocumentWorkflow.create_initial_state called with the request: it
\* stores its arguments as given and tests none of them
CreateInitialState ==
  /\ req.outcome = "pending"
  /\ state' = create_initial_state("str", req.uploaded_file)
  /\ req' = [req EXCEPT !.outcome = "state"]
  /\ UNCHANGED <<pc, node, filtered, invoked, raised, other, assessment>>

\* generate_document: HTTP 400 for a document_type outside valid_types,
\* otherwise create_initial_state; the background task it schedules calls
\* workflow.execute_workflow, which does not exist, and the error is logged
GenerateDocument ==
  /\ req.outcome = "pending"
  /\ IF req.document_type \notin ValidTypes
       THEN /\ req' = [req EXCEPT !.outcome = "http_400"]
            /\ UNCHANGED state
       ELSE /\ state' = create_initial_state("str", req.uploaded_file)
            /\ req' = [req EXCEPT !.outcome = "state_by_api"]
  /\ UNCHANGED <<pc, node, filtered, invoked, raised, other, assessment>>

RequestNext == CreateInitialState \/ GenerateDocument

RequestSpec == RequestInit /\ [][RequestNext]_vars

\* run(initial_state) executed alone, from node n on: the set of states it
\* can return (a set because a process() stage may or may not fail)
RECURSIVE RunAlone(_, _, _)
RunAlone(s, n, f) ==
  UNION { LET out   == _run_node(s, n, throws)
              o     == IF f THEN ChannelWrite(s, out) ELSE out
              label == _should_continue(IF f THEN ChannelView(o) ELSE o)
          IN IF label \notin DOMAIN EdgeMap(n)
               THEN { [o EXCEPT !.status = "error", !.error = "unmapped_label"] }
             ELSE IF EdgeMap(n)[label] = END
               THEN { o }
             ELSE RunAlone(o, EdgeMap(n)[label], f)
        : throws \in BOOLEAN }

\* a resumed run working on the state dictionary of the run just suspended
ResumeShared(r) == state

\* the state dictionary a resumed run works on: its own, the one
\* create_initial_state made for it
Resume(r) == r.state

\* two documents, each with its own run, on one host: the variables
\* describe the run that is executing, other.run the one that is waiting,
\* other.doc says which document is executing and other.initial holds the
\* initial state of each
ConcurrentInit ==
  /\ state \in InitialStates
  /\ pc = "idle"
  /\ node = "none"
  /\ filtered = FALSE
  /\ invoked = << >>
  /\ raised = FALSE
  /\ req = "none"
  /\ assessment = "none"
  /\ other \in { [ doc     |-> 1,
                    initial |-> << state, s2 >>,
                    run     |-> [ state |-> s2, pc |-> "idle", node |-> "none",
                                  filtered |-> FALSE, invoked |-> << >> ] ]
                  : s2 \in InitialStates }

\* the host leaves the executing run where it is and continues the other
Switch ==
  /\ state' = Resume(other.run)
  /\ pc' = other.run.pc
  /\ node' = other.run.node
  /\ filtered' = other.run.filtered
  /\ invoked' = other.run.invoked
  /\ other' = [other EXCEPT !.doc = 3 - @,
                            !.run = [ state |-> state, pc |-> pc, node |-> node,
                                      filtered |-> filtered, invoked |-> invoked ]]
  /\ UNCHANGED <<raised, req, assessment>>

ConcurrentNext ==
  \/ RunInvoke
  \/ RunNode
  \/ RunRoute
  \/ RunExcept
  \/ Switch

ConcurrentSpec == ConcurrentInit /\ [][ConcurrentNext]_vars

\* the eleven stages called one after another on a document, in any order,
\* with no reviewer and no run of the graph
StageNext ==
  \/ OCRExecute
  \/ ClassifierExecute
  \/ DataMappingProcess
  \/ ResearchExecute
  \/ LegalExpertProcess
  \/ CyberSecurityProcess
  \/ StructureExecute
  \/ GeneratorExecute
  \/ QualityExecute
  \/ ComplianceExecute
  \/ HumanSupervisionExecute

StageSpec == Init /\ [][StageNext]_vars

(* ----------------------------- assessments ----------------------------- *)

\* The assessment methods of the compliance and quality agents, called on
\* their own.  A requirement score is the fraction num/den; quality scores
\* are in hundredths.  The generated text is given by what the methods
\* read off it: how many matches a pattern has, which elements are present.

\* the largest number of matches of a requirement pattern in a text
MaxMatches == 3

\* the longest requirement list handed to _calculate_requirement_score
MaxReqs == 2

\* the largest number of required sections missing from a text
MaxSections == 2

RiskLevels == {"low", "medium", "high", "critical"}

\* match counts that tell the three statuses apart
Evidence == {0, 1, 2}

\* issues a text has beyond those its legal vocabulary causes
ExtraIssues == {0, 5, 10, 20}

AssessedTypes == {"politica_privacidade", "termo_consentimento", "contrato"}

Sectors == {"saúde", "financeiro", "e-commerce", "geral"}

Max(a, b) == IF a >= b THEN a ELSE b

\* ComplianceAgent._check_requirement, given len(matches)
_check_requirement(matches) ==
  IF matches >= 2 THEN "compliant"
  ELSE IF matches = 1 THEN "partial"
  ELSE "non_compliant"

weight_mapFlat(risk_level) == 1

\* weight_map.get(req.risk_level, 1)
weight_map(risk_level) ==
  CASE risk_level = "low"      -> 1
    [] risk_level = "medium"   -> 2
    [] risk_level = "high"     -> 3
    [] risk_level = "critical" -> 4
    [] OTHER                   -> 1

\* status_score.get(req.status, 0.0), in halves
status_score(status) ==
  CASE status = "compliant"     -> 2
    [] status = "partial"       -> 1
    [] status = "non_compliant" -> 0
    [] OTHER                    -> 0

\* the two accumulators of the loop of _calculate_requirement_score
RECURSIVE weighted_score(_)
weighted_score(requirements) ==
  IF requirements = << >> THEN 0
  ELSE status_score(Head(requirements).status)
         * weight_map(Head(requirements).risk_level)
       + weighted_score(Tail(requirements))

RECURSIVE total_weight(_)
total_weight(requirements) ==
  IF requirements = << >> THEN 0
  ELSE weight_map(Head(requirements).risk_level)
       + total_weight(Tail(requirements))

\* ComplianceAgent._calculate_requirement_score
_calculate_requirement_score(requirements) ==
  IF requirements = << >> THEN [num |-> 1, den |-> 1]
  ELSE IF total_weight(requirements) > 0
       THEN [num |-> weighted_score(requirements),
             den |-> 2 * total_weight(requirements)]
       ELSE [num |-> 0, den |-> 1]

\* the requirement records built from a list of risk levels and the match
\* count of each pattern
Requirements(risks, matches) ==
  [i \in 1..Len(risks) |->
     [status |-> _check_requirement(matches[i]), risk_level |-> risks[i]]]

\* risk levels of LGPD_001..LGPD_004 and of the requirements added for the
\* document type
LgpdRisks(document_type) ==
  << "high", "high", "high", "high" >>
  \o (IF document_type = "politica_privacidade"
      THEN << "critical", "high", "critical" >>
      ELSE IF document_type = "termo_consentimento"
           THEN << "critical", "critical", "high" >>
           ELSE << >>)

\* risk levels of ANPD_001..ANPD_003
AnpdRisks == << "medium", "medium", "high" >>

\* risk levels of sector_requirements.get(industry_sector.lower(), [])
IndustryRisks(industry_sector) ==
  CASE industry_sector = "saúde"      -> << "critical", "critical" >>
    [] industry_sector = "financeiro" -> << "critical", "critical" >>
    [] industry_sector = "e-commerce" -> << "high" >>
    [] OTHER                          -> << >>

\* ComplianceAgent._validate_compliance, given the three requirement lists
_validate_compliance(lgpd_requirements, anpd_requirements, industry_requirements) ==
  LET all_requirements ==
        lgpd_requirements \o anpd_requirements \o industry_requirements
      lgpd_score     == _calculate_requirement_score(lgpd_requirements)
      anpd_score     == _calculate_requirement_score(anpd_requirements)
      industry_score == _calculate_requirement_score(industry_requirements)
      overall_score ==
        [num |-> 5 * lgpd_score.num * anpd_score.den * industry_score.den
                 + 3 * anpd_score.num * lgpd_score.den * industry_score.den
                 + 2 * industry_score.num * lgpd_score.den * anpd_score.den,
         den |-> 10 * lgpd_score.den * anpd_score.den * industry_score.den]
      is_compliant ==
        /\ 100 * overall_score.num >= 85 * overall_score.den
        /\ Cardinality({i \in 1..Len(all_requirements) :
                          all_requirements[i].risk_level = "critical"}) = 0
  IN [requirements             |-> {all_requirements[i] :
                                      i \in 1..Len(all_requirements)},
      is_compliant             |-> is_compliant,
      op                       |-> "_validate_compliance",
      overall_compliance_score |-> overall_score]

\* QualityAgent._assess_grammar_quality, given issue_count
_assess_grammar_quality(issue_count) ==
  Max(0, 100 - (IF issue_count > 20 THEN 30
                ELSE IF issue_count > 10 THEN 20
                ELSE IF issue_count > 5 THEN 10
                ELSE 0))

\* QualityAgent._assess_legal_quality, given len(missing_elements) and the
\* value of _check_legal_consistency
_assess_legal_quality(missing_elements, consistent) ==
  Max(0, 100 - missing_elements * 15 + (IF consistent THEN 10 ELSE 0))

\* QualityAgent._assess_structure_quality, given len(missing_sections) and
\* the values of _is_hierarchy_consistent and _check_section_lengths
_assess_structure_quality(missing_sections, hierarchy_consistent, section_lengths) ==
  Max(0, 100 - missing_sections * 20
             - (IF ~hierarchy_consistent THEN 10 ELSE 0)
             - (IF section_lengths THEN 10 ELSE 0))

\* QualityAgent._assess_completeness_quality, given which of its four
\* tests the text passes
_assess_completeness_quality(long_enough, names_company, has_contact, has_date) ==
  Max(0, 100 - (IF ~long_enough THEN 30 ELSE 0)
             - (IF ~names_company THEN 20 ELSE 0)
             - (IF ~has_contact THEN 20 ELSE 0)
             - (IF ~has_date THEN 10 ELSE 0))

\* QualityAgent._assess_document_quality, given the four component scores;
\* overall_score is kept as four times its value
_assess_document_quality(grammar_score, legal_score, structure_score, completeness_score) ==
  [overall_score      |-> grammar_score + legal_score + structure_score
                          + completeness_score,
   op                 |-> "_assess_document_quality",
   grammar_score      |-> grammar_score,
   legal_score        |-> legal_score,
   structure_score    |-> structure_score,
   completeness_score |-> completeness_score]

\* a generated document of some type and sector, about to be assessed
AssessInit ==
  /\ state = create_initial_state("enum", FALSE)
  /\ pc = "idle"
  /\ node = "none"
  /\ filtered = FALSE
  /\ invoked = << >>
  /\ raised = FALSE
  /\ req = "none"
  /\ other = "none"
  /\ assessment \in [ document_type   : AssessedTypes,
                      industry_sector : Sectors,
                      op              : {"input"} ]

Assess(result) ==
  /\ assessment.op = "input"
  /\ assessment' = result
  /\ UNCHANGED <<state, pc, node, filtered, invoked, raised, req, other>>

\* one requirement list scored
CalculateRequirementScore ==
  /\ assessment.op = "input"
  /\ \E n \in 0..MaxReqs :
       \E risks \in [1..n -> RiskLevels], matches \in [1..n -> 0..MaxMatches] :
         Assess([matches      |-> matches,
                 requirements |-> Requirements(risks, matches),
                 op           |-> "_calculate_requirement_score",
                 score        |-> _calculate_requirement_score(
                                    Requirements(risks, matches))])

\* the risk levels that occur in a list
Range(risks) == {risks[i] : i \in 1..Len(risks)}

\* the text of the document validated against the three requirement lists
\* of its type and sector; texts are taken in which the patterns of one
\* list and one risk level have the same number of matches
ValidateCompliance ==
  /\ assessment.op = "input"
  /\ LET lgpd     == LgpdRisks(assessment.document_type)
         industry == IndustryRisks(assessment.industry_sector)
     IN \E l \in [Range(lgpd) -> Evidence],
           a \in [Range(AnpdRisks) -> Evidence],
           i \in [Range(industry) -> Evidence] :
          Assess(_validate_compliance(
                   Requirements(lgpd, [k \in 1..Len(lgpd) |-> l[lgpd[k]]]),
                   Requirements(AnpdRisks,
                                [k \in 1..Len(AnpdRisks) |-> a[AnpdRisks[k]]]),
                   Requirements(industry,
                                [k \in 1..Len(industry) |-> i[industry[k]]])))

\* the text of the document assessed for quality.  Each legal element the
\* text has is a word of its own, and so is a date word: the first grammar
\* pattern counts every one of them; an article reference also holds white
\* space, which the second counts.  The contact words of the completeness
\* test are among those of the legal element contact_info.
AssessDocumentQuality ==
  /\ assessment.op = "input"
  /\ \E terms \in 0..4, articles \in BOOLEAN, contact_info \in BOOLEAN,
        consistent \in BOOLEAN, extra \in ExtraIssues,
        missing_sections \in 0..MaxSections,
        hierarchy_consistent \in BOOLEAN, section_lengths \in BOOLEAN,
        long_enough \in BOOLEAN, names_company \in BOOLEAN,
        has_contact \in BOOLEAN, has_date \in BOOLEAN :
       LET present == terms + (IF articles THEN 1 ELSE 0)
                            + (IF contact_info THEN 1 ELSE 0)
           issue_count == present + (IF articles THEN 1 ELSE 0)
                                  + (IF has_date THEN 1 ELSE 0) + extra
       IN /\ has_contact => contact_info
          /\ Assess(_assess_document_quality(
                      _assess_grammar_quality(issue_count),
                      _assess_legal_quality(6 - present, consistent),
                      _assess_structure_quality(missing_sections,
                                                hierarchy_consistent,
                                                section_lengths),
                      _assess_completeness_quality(long_enough, names_company,
                                                   has_contact, has_date)))

AssessNext ==
  \/ CalculateRequirementScore
  \/ ValidateCompliance
  \/ AssessDocumentQuality

AssessSpec == AssessInit /\ [][AssessNext]_vars

(* ------------------------------- claims -------------------------------- *)

Terminal == {"approved", "rejected", "error"}

IsPrefix(a, b) == Len(a) <= Len(b) /\ \A i \in 1..Len(a) : a[i] = b[i]

NoDuplicates(a) == \A i, j \in 1..Len(a) : a[i] = a[j] => i = j

\* C1: the state run() returns has current_status APPROVED, REJECTED or ERROR
C1_RunReturnsTerminal ==
  pc = "returned" => state.current_status \in Terminal

\* C2: when a stage of a run has failed, the run has halted at that stage
\* and the state it returns has current_status ERROR and a non-empty
\* error_messages
C2_FailFast ==
  (pc = "returned" /\ state.status = "error")
    => /\ state.current_status = "error"
       /\ state.error_messages # << >>

\* C3: run() terminates: a run that has started returns, and no stage is
\* invoked twice in it
C3_RunTerminates ==
  /\ [](NoDuplicates(invoked))
  /\ (pc = "node") ~> (pc = "returned")

C3_Witness == pc = "returned" /\ invoked # << >>

\* C4: a run invokes the stages in registry order and leaves none out: when
\* it returns it has invoked them all, unless a stage reported an error
C4_StagesInFixedOrder ==
  pc = "returned"
    => /\ IsPrefix(invoked, Registry)
       /\ (invoked # Registry => state.current_status = "error")

\* C5: revision_attempts never exceeds the configured maximum
C5_RevisionAttemptsBounded ==
  state.revision_attempts <= MAX_REVISION_ATTEMPTS

\* C6: can_be_delivered implies is_approved
C6_DeliveredImpliesApproved ==
  state.can_be_delivered => state.is_approved

C8_TerminalAbsorbing ==
  [][state.current_status \in {"approved", "rejected"}
       => state'.current_status = state.current_status]_vars

\* the decision C9 claims, with the configured maximum as its bound
ClaimedDecision(quality_score, compliance_score, revision_attempts) ==
  IF quality_score >= 85 /\ compliance_score >= 85 THEN "approved"
  ELSE IF revision_attempts < MAX_REVISION_ATTEMPTS
          /\ (quality_score < 80 \/ compliance_score < 80)
    THEN "needs_revision"
  ELSE "rejected"

\* the current_status that ApplyDecision gives a decision
StatusOf(decision) ==
  CASE decision = "approved"       -> "approved"
    [] decision = "needs_revision" -> "human_review"
    [] decision = "rejected"       -> "rejected"

\* C9: the simulated review decides as claimed from quality_score,
\* compliance_score and revision_attempts
C9_SimulatedDecision ==
  [][(HumanSupervisionExecute /\ ~ValueRaises(state))
       => state'.current_status =
            StatusOf(ClaimedDecision(state.quality_score,
                                     state.compliance_score,
                                     state.revision_attempts))]_vars

\* C10: a document sent back for revision goes through generation again
\* until it is approved, rejected or failed, and every run that has started
\* reaches one of these verdicts
C10_RevisionReachesVerdict ==
  /\ (state.current_status = "human_review")
        ~> (state.current_status \in Terminal)
  /\ (pc = "node") ~> (state.current_status \in Terminal)

\* the nodes a run has invoked, as a set
Invoked == { invoked[i] : i \in 1..Len(invoked) }

\* C11: a run that returns has approved the document with no revision
\* counted (APPROVED, is_approved, revision_attempts = 0), unless a stage
\* reported an error or the quality or compliance stage of the run gave a
\* score below 0.85
C11_FirstPassApproved ==
  pc = "returned"
    => \/ /\ state.current_status = "approved"
          /\ state.is_approved
          /\ state.revision_attempts = 0
       \/ state.current_status = "error"
       \/ /\ "quality" \in Invoked
          /\ state.quality_score < APPROVAL_THRESHOLD
       \/ /\ "compliance" \in Invoked
          /\ state.compliance_score < APPROVAL_THRESHOLD

\* C12: one revision attempt is counted per failed pass: a document on
\* which the quality stage and the review stage have each run once has at
\* most one revision attempt
C12_OneIncrementPerPass ==
  state.processing_log = << "QualityAgent", "HumanSupervisionAgent" >>
    => state.revision_attempts <= 1

\* C13: no stage raises past its own boundary
C13_StageContainsFailures == raised = FALSE

\* C14: a state is created only for a request whose document_type is one
\* of the document types and whose company_name and activity_description
\* are not empty
C14_InvalidRequestRefused ==
  req.outcome \in {"state", "state_by_api"}
    => /\ req.document_type \in ValidTypes
       /\ req.company_name # ""
       /\ req.activity_description # ""

\* C15: the state create_initial_state returns has every field at its
\* default: the counter at 0, the flags false, and processing_log and
\* error_messages present and empty
C15_InitialStateComplete ==
  req.outcome \in {"state", "state_by_api"}
    => /\ state.current_status = "pending"
       /\ state.has_error_messages
       /\ state.error_messages = << >>
       /\ state.processing_log = << >>
       /\ state.revision_attempts = 0
       /\ ~state.is_complete

\* the decisions submit_review_decision is to accept
ValidDecisions == {"approved", "needs_revision", "rejected"}

\* C16: a submitted decision that is none of approved, needs_revision and
\* rejected leaves the document state as it was
C16_InvalidDecisionRefused ==
  [][\A decision \in Decisions \ ValidDecisions :
       Call(Returned(process_review_decision(state, decision)))
         => state' = state]_vars

\* C18: every stage invocation appends exactly one entry to processing_log
C18_OneLogEntryPerStage ==
  [][Len(state'.processing_log) = Len(state.processing_log) + 1]_vars

\* C19: processing_log and error_messages are append-only: over every step
\* the old contents are a prefix of the new
C19_AppendOnly ==
  [][/\ IsPrefix(state.processing_log, state'.processing_log)
     /\ IsPrefix(state.error_messages, state'.error_messages)]_vars

\* two stages have logged and one of them has recorded an error
C19_Witness ==
  /\ Len(state.processing_log) = 2
  /\ Len(state.error_messages) = 1

\* the transition order of current_status; PROCESSING, which every
\* execute() passes through, and ERROR, which any status may turn into,
\* are not part of it
Rank ==
  [ pending |-> 0, ocr_complete |-> 1, classified |-> 2, researched |-> 3,
    structured |-> 4, generated |-> 5, quality_checked |-> 6,
    compliance_validated |-> 7, human_review |-> 8, approved |-> 9,
    rejected |-> 9 ]

\* C20: no stage moves current_status backward in the transition order,
\* except for the revision re-entry from HUMAN_REVIEW to GENERATED
C20_StatusMovesForward ==
  [][(state.current_status \in DOMAIN Rank
        /\ state'.current_status \in DOMAIN Rank)
       => \/ Rank[state'.current_status] >= Rank[state.current_status]
          \/ /\ state.current_status = "human_review"
             /\ state'.current_status = "generated"]_vars

C21_IdentityFieldsKept ==
  [][state'.document_type = state.document_type]_vars

\* C22: the compliance validation reports is_compliant exactly when the
\* weighted score is at least 0.85 and no requirement of critical risk has
\* a status other than compliant; a satisfied critical requirement does
\* not prevent compliance
C22_CompliantIffNoUnresolvedCritical ==
  assessment.op = "_validate_compliance"
    => (assessment.is_compliant
          <=> /\ 100 * assessment.overall_compliance_score.num
                   >= 85 * assessment.overall_compliance_score.den
              /\ \A r \in assessment.requirements :
                    r.risk_level = "critical" => r.status = "compliant")

\* the status, the status score (in halves) and the risk weight as the
\* scoring rule states them
ClaimedStatus(matches) ==
  IF matches = 0 THEN "non_compliant"
  ELSE IF matches = 1 THEN "partial" ELSE "compliant"

ClaimedStatusScore(matches) ==
  IF matches = 0 THEN 0 ELSE IF matches = 1 THEN 1 ELSE 2

ClaimedWeight(risk_level) ==
  CASE risk_level = "low"      -> 1
    [] risk_level = "medium"   -> 2
    [] risk_level = "high"     -> 3
    [] risk_level = "critical" -> 4

RECURSIVE SumTo(_, _)
SumTo(f, n) == IF n = 0 THEN 0 ELSE f[n] + SumTo(f, n - 1)

\* C23: a requirement with 0 matches is non_compliant, with 1 match partial,
\* with 2 or more compliant, and the score of a non-empty requirement list
\* is the sum of status score (0, 0.5, 1) times risk weight (1, 2, 3, 4)
\* divided by the sum of the weights
C23_RequirementScoring ==
  assessment.op = "_calculate_requirement_score"
    => LET n  == Len(assessment.requirements)
           w  == [i \in 1..n |->
                    ClaimedWeight(assessment.requirements[i].risk_level)]
           sw == [i \in 1..n |->
                    ClaimedStatusScore(assessment.matches[i]) * w[i]]
       IN /\ \A i \in 1..n :
                assessment.requirements[i].status
                  = ClaimedStatus(assessment.matches[i])
          /\ n > 0 => assessment.score.num * 2 * SumTo(w, n)
                        = SumTo(sw, n) * assessment.score.den

\* a partial critical requirement and a compliant low one score 6/10
C23_Witness ==
  /\ assessment.op = "_calculate_requirement_score"
  /\ assessment.matches = << 1, 3 >>
  /\ Len(assessment.requirements) = 2
  /\ assessment.requirements[1].risk_level = "critical"
  /\ assessment.requirements[1].status = "partial"
  /\ assessment.requirements[2].risk_level = "low"
  /\ assessment.requirements[2].status = "compliant"
  /\ assessment.score.num = 6
  /\ assessment.score.den = 10

\* C30: the overall quality score lies in [0, 1], each of the grammar,
\* legal, structure and completeness scores lies in [0, 1], and the overall
\* score is their mean
C30_QualityScoreInUnitInterval ==
  assessment.op = "_assess_document_quality"
    => /\ assessment.overall_score \in 0..400
       /\ assessment.grammar_score \in 0..100
       /\ assessment.legal_score \in 0..100
       /\ assessment.structure_score \in 0..100
       /\ assessment.completeness_score \in 0..100
       /\ assessment.overall_score
            = assessment.grammar_score + assessment.legal_score
              + assessment.structure_score + assessment.completeness_score

\* C24: a failing quality assessment does not abort: the quality stage,
\* when its assessment completes, ends in QUALITY_CHECKED whether or not the
\* document is acceptable, counting a revision attempt exactly when it is
\* not, and a run goes on to the compliance stage unless a stage reported
\* an error
C24_QualityIsSoftSignal ==
  /\ [][(/\ (state'.processing_log
                = Append(state.processing_log, "QualityAgent"))
          /\ state'.current_status # "error"
          /\ ~raised')
        => /\ state'.current_status = "quality_checked"
           /\ (state'.revision_attempts
                 \in {state.revision_attempts, state.revision_attempts + 1})
           /\ (state'.quality_score < QUALITY_ACCEPTABLE
                 => state'.revision_attempts = state.revision_attempts + 1)]_vars
  /\ (pc = "node")
       ~> ("compliance" \in Invoked \/ state.current_status = "error")

\* C25: the terminal flags is_complete, is_approved and can_be_delivered
\* become true only in a step that ends in a terminal status, and once
\* true no stage execution or review decision makes them false
C25_TerminalFlagsNeverReset ==
  [][/\ (state.is_complete => state'.is_complete)
     /\ (state.is_approved => state'.is_approved)
     /\ (state.can_be_delivered => state'.can_be_delivered)
     /\ ((\/ ~state.is_complete /\ state'.is_complete
          \/ ~state.is_approved /\ state'.is_approved
          \/ ~state.can_be_delivered /\ state'.can_be_delivered)
           => state'.current_status \in Terminal)]_vars

\* C28: whatever review decisions were simulated and submitted, a document
\* whose is_approved is true has current_status APPROVED
C28_ApprovedFlagMeansApproved ==
  state.is_approved => state.current_status = "approved"

\* C26: the label _should_continue returns after a node is a key of that
\* node's conditional-edge map
C26_LabelsMapped ==
  pc = "route"
    => _should_continue(IF filtered THEN ChannelView(state) ELSE state)
         \in DOMAIN EdgeMap(node)

\* C27: a wrapper whose agent call raises (here: the agent has no process
\* method) returns the state with only status and error written, and the
\* graph then routes to END: the run returns with no later stage invoked
C27_WrapperContainsFailure ==
  [][/\ (pc = "node" /\ ~HasProcess(node))
          => /\ pc' = "route"
             /\ [state' EXCEPT !.status = state.status,
                               !.error = state.error] = state
             /\ (~filtered => state'.status = "error")
     /\ (pc = "route" /\ ~HasProcess(node))
          => /\ pc' = "returned"
             /\ state' = state
             /\ invoked' = invoked]_vars

\* C29: a step that changes data_mapping, legal_expert or cyber_security
\* changes that one field only, to a completed or an error result, and
\* nothing is raised and no status reports the failure
C29_ProcessWritesOwnField ==
  [][/\ (state'.data_mapping # state.data_mapping
          => /\ state' = [state EXCEPT !.data_mapping = state'.data_mapping]
             /\ state'.data_mapping \in {"completed", "error"}
             /\ ~raised')
     /\ (state'.legal_expert # state.legal_expert
          => /\ state' = [state EXCEPT !.legal_expert = state'.legal_expert]
             /\ state'.legal_expert \in {"completed", "error"}
             /\ ~raised')
     /\ (state'.cyber_security # state.cyber_security
          => /\ state' = [state EXCEPT !.cyber_security = state'.cyber_security]
             /\ state'.cyber_security \in {"completed", "error"}
             /\ ~raised')]_vars

\* a document on which the three stages have run after another stage, two
\* of them failing inside, with no error reported anywhere else
C29_Witness ==
  /\ state.data_mapping = "error"
  /\ state.legal_expert = "completed"
  /\ state.cyber_security = "error"
  /\ state.current_status = "classified"
  /\ state.error_messages = << >>
  /\ state.processing_log = << "ClassifierAgent" >>
  /\ ~raised
====
